---- MODULE Spec2Model ----
(***************************************************************************)
(* vyjs: synchronising Yjs documents with plain objects.                   *)
(*                                                                         *)
(* Three specifications over one set of variables:                        *)
(*   Spec      the live tree under transactions, deep-observed by the     *)
(*             handler of getYjsEventsHandler (src/src/main.ts);          *)
(*   SpecDelta applyJsonDiffPatchDelta (src/src/main.ts) applied to a     *)
(*             live Map, Array or Text node;                              *)
(*   SpecDiff  applyJsonDiffToYjs, jsonToYType and lcs of the 2.x API     *)
(*             (documented in the README and exercised by its tests).     *)
(*                                                                         *)
(* Values.  A plain (JSON) value is a record with a kind k and a payload: *)
(*   k = "prim"  n a number          (number | boolean | null)            *)
(*   k = "str"   s a sequence of one-character strings                    *)
(*   k = "arr"   e a sequence of plain values                             *)
(*   k = "obj"   m a function from keys to plain values                   *)
(* An object or array that the caller holds by reference carries a third  *)
(* field id: two such values are the same object (===) iff their ids are  *)
(* equal; a value without id is a fresh object.                           *)
(* A live node has k in "ymap" (m), "yarray" (e), "ytext" (s); any plain  *)
(* value can also sit in the live tree as an opaque leaf.                 *)
(***************************************************************************)
EXTENDS Integers, Sequences, FiniteSets, TLC

VARIABLES
    yRoot,        \* the live root node (yMap = ydoc.getMap('rootMap'), or a root Y.Array / Y.Text)
    plainObject,  \* the plain snapshot: the handler's plainObject, or the caller's old value
    pc,           \* "idle", "tx" inside ydoc.transact(...), "called" when a call has just returned
    changed,      \* paths of the pre-existing nodes changed in the open transaction, in order of first change
    fresh,        \* paths of the nodes created in the open transaction
    nops,         \* mutations issued in the open transaction
    last          \* outcome of the last call: what it was, error, warnings, live operations, notifications

vars == <<yRoot, plainObject, pc, changed, fresh, nops, last>>

\* ------------------------------------------------------------------ bounds

Keys == {"a", "b"}
Chars == {"x"}
MaxNodes == 2        \* nodes below the root of the live tree (Spec)
MaxLen == 2          \* length of a live Y.Array / Y.Text (Spec)
MaxOps == 2          \* mutations per transaction (Spec)

\* ------------------------------------------------------------ plain values

Prim(n) == [k |-> "prim", n |-> n]
Str(s) == [k |-> "str", s |-> s]
Arr(e) == [k |-> "arr", e |-> e]
Obj(m) == [k |-> "obj", m |-> m]
YMap(m) == [k |-> "ymap", m |-> m]
YArray(e) == [k |-> "yarray", e |-> e]
YText(s) == [k |-> "ytext", s |-> s]

EmptyFn == [x \in {} |-> Prim(0)]

\* null: a primitive of its own, apart from the numbers that stand for the others
Null == Prim(-1)

\* path elements: a string key or an integer index
K(key) == [key |-> key]
I(idx) == [idx |-> idx]
IsIndex(e) == "idx" \in DOMAIN e

IsYType(n) == n.k \in {"ymap", "yarray", "ytext"}

MapPut(f, key, val) == [x \in (DOMAIN f) \cup {key} |-> IF x = key THEN val ELSE f[x]]
MapDel(f, key) == [x \in (DOMAIN f) \ {key} |-> f[x]]
\* 0-based positions, as in the source
InsertAt(s, i, e) == SubSeq(s, 1, i) \o <<e>> \o SubSeq(s, i + 1, Len(s))
RemoveAt(s, i) == SubSeq(s, 1, i) \o SubSeq(s, i + 2, Len(s))

\* ---------------------------------------------------------- serializeYType

RECURSIVE serializeYType(_)

\* serializeYType with the array branch returning yType.toArray() as it is
serializeYType_ShallowArrays(yType) ==
    CASE yType.k = "ymap" ->
            Obj([key \in DOMAIN yType.m |-> serializeYType(yType.m[key])])
      [] yType.k = "yarray" -> Arr(yType.e)
      [] yType.k = "ytext" -> Str(yType.s)
      [] OTHER -> yType

serializeYType(yType) ==
    CASE yType.k = "ymap" ->
            Obj([key \in DOMAIN yType.m |-> serializeYType(yType.m[key])])
      [] yType.k = "yarray" ->
            Arr([i \in 1..Len(yType.e) |-> serializeYType(yType.e[i])])
      [] yType.k = "ytext" -> Str(yType.s)
      [] OTHER -> yType

\* deep equality of plain values (toEqual): object identity is not compared
RECURSIVE Strip(_)
Strip(val) ==
    CASE val.k = "obj" -> Obj([key \in DOMAIN val.m |-> Strip(val.m[key])])
      [] val.k = "arr" -> Arr([i \in 1..Len(val.e) |-> Strip(val.e[i])])
      [] OTHER -> val

DeepEqual(a, b) == Strip(a) = Strip(b)

\* ------------------------------------------------------- the live tree (Yjs)

IsPrefix(p, q) == Len(p) <= Len(q) /\ SubSeq(q, 1, Len(p)) = p

\* the child of a live container at one path element (yMap.get(key), yArray.get(index))
YChild(node, e) == IF IsIndex(e) THEN node.e[e.idx + 1] ELSE node.m[e.key]

RECURSIVE GetAt(_, _)
GetAt(node, path) ==
    IF path = <<>> THEN node ELSE GetAt(YChild(node, Head(path)), Tail(path))

RECURSIVE SetAt(_, _, _)
SetAt(node, path, new) ==
    IF path = <<>> THEN new
    ELSE LET e == Head(path)
             sub == SetAt(YChild(node, e), Tail(path), new)
         IN  IF IsIndex(e)
             THEN [node EXCEPT !.e = [node.e EXCEPT ![e.idx + 1] = sub]]
             ELSE [node EXCEPT !.m = MapPut(node.m, e.key, sub)]

\* paths of the shared types of a live tree, the root included
RECURSIVE YPaths(_)
YPaths(node) ==
    CASE node.k = "ymap" ->
            {<<>>} \cup UNION {{<<K(key)>> \o p : p \in YPaths(node.m[key])} : key \in DOMAIN node.m}
      [] node.k = "yarray" ->
            {<<>>} \cup UNION {{<<I(i - 1)>> \o p : p \in YPaths(node.e[i])} : i \in 1..Len(node.e)}
      [] node.k = "ytext" -> {<<>>}
      [] OTHER -> {}

RECURSIVE SumSeq(_)
SumSeq(s) == IF s = <<>> THEN 0 ELSE Head(s) + SumSeq(Tail(s))

RECURSIVE SumSet(_, _)
SumSet(f, S) == IF S = {} THEN 0 ELSE LET x == CHOOSE y \in S : TRUE IN f[x] + SumSet(f, S \ {x})

\* nodes below a node
RECURSIVE NodeCount(_)
NodeCount(node) ==
    CASE node.k = "ymap" ->
            SumSet([key \in DOMAIN node.m |-> 1 + NodeCount(node.m[key])], DOMAIN node.m)
      [] node.k = "yarray" ->
            SumSeq([i \in 1..Len(node.e) |-> 1 + NodeCount(node.e[i])])
      [] OTHER -> 0

\* ------------------------------------------------------ getYjsEventsHandler

PlainHas(current, e) ==
    IF IsIndex(e) THEN current.k = "arr" /\ e.idx < Len(current.e)
    ELSE current.k = "obj" /\ e.key \in DOMAIN current.m

PlainGet(current, e) == IF IsIndex(e) THEN current.e[e.idx + 1] ELSE current.m[e.key]

\* current[key] = value on a plain object or array
PlainSet(current, e, value) ==
    IF IsIndex(e)
    THEN IF current.k = "arr" /\ e.idx < Len(current.e)
         THEN Arr([current.e EXCEPT ![e.idx + 1] = value])
         ELSE IF current.k = "arr" /\ e.idx = Len(current.e)
         THEN Arr(Append(current.e, value))
         ELSE current
    ELSE IF current.k = "obj" THEN Obj(MapPut(current.m, e.key, value)) ELSE current

\* Object.assign that takes the source in place of the target
ObjectAssign_Replaces(target, source) ==
    IF source.k = "obj" THEN source ELSE target

\* Object.assign(target, source) for plain objects
ObjectAssign(target, source) ==
    IF source.k = "obj"
    THEN Obj([x \in (DOMAIN target.m) \cup (DOMAIN source.m) |->
                IF x \in DOMAIN source.m THEN source.m[x] ELSE target.m[x]])
    ELSE target

\* lines 14-25: walk the path, creating {} where current[key] is undefined, and
\* assign the value at the last key
RECURSIVE AssignPath(_, _, _)
AssignPath(current, path, value) ==
    LET e == Head(path) IN
    IF Len(path) = 1 THEN PlainSet(current, e, value)
    ELSE LET child == IF PlainHas(current, e) THEN PlainGet(current, e) ELSE Obj(EmptyFn)
         IN  PlainSet(current, e, AssignPath(child, Tail(path), value))

\* HandleEvent that writes the value of the event into an empty snapshot
HandleEvent_DropsSiblings(plain, path, tree) ==
    LET value == serializeYType(GetAt(tree, path)) IN
    IF path # <<>> THEN AssignPath(Obj(EmptyFn), path, value) ELSE ObjectAssign(plain, value)

\* one event of the batch: event.path and serializeYType(event.target)
HandleEvent(plain, path, tree) ==
    LET value == serializeYType(GetAt(tree, path)) IN
    IF path # <<>> THEN AssignPath(plain, path, value) ELSE ObjectAssign(plain, value)

\* the walk along the path comes to a number or a string with a key left: the module
\* is strict code, where creating or assigning a property of a primitive is a
\* TypeError (lines 17-18 and 25)
RECURSIVE AssignThrows(_, _)
AssignThrows(current, path) ==
    IF current.k \in {"prim", "str"} THEN TRUE
    ELSE IF Len(path) = 1 THEN FALSE
    ELSE IF PlainHas(current, Head(path))
    THEN AssignThrows(PlainGet(current, Head(path)), Tail(path))
    ELSE FALSE

\* events.forEach(...): an exception ends the loop, the events after it are not
\* processed and what the events before it wrote stays
RECURSIVE getYjsEventsHandler(_, _, _)
getYjsEventsHandler(plain, events, tree) ==
    IF events = <<>> THEN plain
    ELSE IF Head(events) # <<>> /\ AssignThrows(plain, Head(events)) THEN plain
    ELSE getYjsEventsHandler(HandleEvent(plain, Head(events), tree), Tail(events), tree)

\* the values the handler hands to a subscriber during one batch: the function of
\* lines 7-31 has the one parameter plainObject and calls nothing back
callbackCalls(plain, events, tree) == <<>>

\* two paths are disjoint when neither leads to or through the node of the other
DisjointPaths(P, Q) ==
    \A i \in 1..Len(P), j \in 1..Len(Q) : ~IsPrefix(P[i], Q[j]) /\ ~IsPrefix(Q[j], P[i])

\* observeDeep hands over the events sorted by path length (stable)
RECURSIVE SortByLength(_, _)
SortByLength(paths, n) ==
    IF \A i \in 1..Len(paths) : Len(paths[i]) < n THEN <<>>
    ELSE SelectSeq(paths, LAMBDA p : Len(p) = n) \o SortByLength(paths, n + 1)

\* ------------------------------------------- transactions on the live tree

\* values a caller stores in the live tree
NewValues == {Prim(1), Str(<<"x">>), YText(<<>>), YMap(EmptyFn), YArray(<<>>)}

IsFresh(p) == \E q \in fresh : IsPrefix(q, p)

\* a pre-existing type is recorded once per transaction; a type created in the
\* transaction fires no event of its own
Touch(ch, p) ==
    IF IsFresh(p) \/ (\E i \in 1..Len(ch) : ch[i] = p) THEN ch ELSE Append(ch, p)

DropUnderSeq(ch, p) == SelectSeq(ch, LAMBDA q : ~IsPrefix(p, q))
DropUnderSet(S, p) == {q \in S : ~IsPrefix(p, q)}

\* the path of a node after d elements were inserted (d = 1) or removed (d = -1) at
\* index i of the array at path p
ShiftPath(q, p, i, d) ==
    IF Len(q) > Len(p) /\ IsPrefix(p, q) /\ q[Len(p) + 1].idx >= i
    THEN [q EXCEPT ![Len(p) + 1] = I(q[Len(p) + 1].idx + d)]
    ELSE q

ShiftSeq(ch, p, i, d) == [n \in 1..Len(ch) |-> ShiftPath(ch[n], p, i, d)]
ShiftSet(S, p, i, d) == {ShiftPath(q, p, i, d) : q \in S}

Init ==
    /\ yRoot = YMap(EmptyFn)
    /\ plainObject = Obj(EmptyFn)
    /\ pc = "idle"
    /\ changed = <<>>
    /\ fresh = {}
    /\ nops = 0
    /\ last = [op |-> "none"]

\* ydoc.transact(() => { ... })
Transact ==
    /\ pc = "idle"
    /\ pc' = "tx"
    /\ UNCHANGED <<yRoot, plainObject, changed, fresh, nops, last>>

InTx == pc = "tx" /\ nops < MaxOps

\* yMap.set(key, value)
YMapSet ==
    /\ InTx
    /\ \E p \in YPaths(yRoot), key \in Keys, val \in NewValues :
         LET node == GetAt(yRoot, p) IN
         /\ node.k = "ymap"
         /\ key \in DOMAIN node.m \/ NodeCount(yRoot) < MaxNodes
         /\ yRoot' = SetAt(yRoot, p, YMap(MapPut(node.m, key, val)))
         /\ changed' = Touch(DropUnderSeq(changed, p \o <<K(key)>>), p)
         /\ fresh' = DropUnderSet(fresh, p \o <<K(key)>>)
                        \cup (IF IsYType(val) THEN {p \o <<K(key)>>} ELSE {})
    /\ nops' = nops + 1
    /\ UNCHANGED <<plainObject, pc, last>>

\* yMap.delete(key)
YMapDelete ==
    /\ InTx
    /\ \E p \in YPaths(yRoot) :
         LET node == GetAt(yRoot, p) IN
         /\ node.k = "ymap"
         /\ \E key \in DOMAIN node.m :
              /\ yRoot' = SetAt(yRoot, p, YMap(MapDel(node.m, key)))
              /\ changed' = Touch(DropUnderSeq(changed, p \o <<K(key)>>), p)
              /\ fresh' = DropUnderSet(fresh, p \o <<K(key)>>)
    /\ nops' = nops + 1
    /\ UNCHANGED <<plainObject, pc, last>>

\* yArray.insert(index, [value]) / yArray.push([value])
YArrayInsert ==
    /\ InTx
    /\ \E p \in YPaths(yRoot), val \in NewValues :
         LET node == GetAt(yRoot, p) IN
         /\ node.k = "yarray"
         /\ Len(node.e) < MaxLen
         /\ NodeCount(yRoot) < MaxNodes
         /\ \E i \in 0..Len(node.e) :
              /\ yRoot' = SetAt(yRoot, p, YArray(InsertAt(node.e, i, val)))
              /\ changed' = Touch(ShiftSeq(changed, p, i, 1), p)
              /\ fresh' = ShiftSet(fresh, p, i, 1)
                             \cup (IF IsYType(val) THEN {p \o <<I(i)>>} ELSE {})
    /\ nops' = nops + 1
    /\ UNCHANGED <<plainObject, pc, last>>

\* yArray.delete(index, 1)
YArrayDelete ==
    /\ InTx
    /\ \E p \in YPaths(yRoot) :
         LET node == GetAt(yRoot, p) IN
         /\ node.k = "yarray"
         /\ \E i \in 0..(Len(node.e) - 1) :
              /\ yRoot' = SetAt(yRoot, p, YArray(RemoveAt(node.e, i)))
              /\ changed' = Touch(ShiftSeq(DropUnderSeq(changed, p \o <<I(i)>>), p, i + 1, -1), p)
              /\ fresh' = ShiftSet(DropUnderSet(fresh, p \o <<I(i)>>), p, i + 1, -1)
    /\ nops' = nops + 1
    /\ UNCHANGED <<plainObject, pc, last>>

\* yText.insert(offset, c)
YTextInsert ==
    /\ InTx
    /\ \E p \in YPaths(yRoot), c \in Chars :
         LET node == GetAt(yRoot, p) IN
         /\ node.k = "ytext"
         /\ Len(node.s) < MaxLen
         /\ \E i \in 0..Len(node.s) :
              yRoot' = SetAt(yRoot, p, YText(InsertAt(node.s, i, c)))
         /\ changed' = Touch(changed, p)
    /\ nops' = nops + 1
    /\ UNCHANGED <<plainObject, pc, fresh, last>>

\* yText.delete(offset, 1)
YTextDelete ==
    /\ InTx
    /\ \E p \in YPaths(yRoot) :
         LET node == GetAt(yRoot, p) IN
         /\ node.k = "ytext"
         /\ \E i \in 0..(Len(node.s) - 1) :
              yRoot' = SetAt(yRoot, p, YText(RemoveAt(node.s, i)))
         /\ changed' = Touch(changed, p)
    /\ nops' = nops + 1
    /\ UNCHANGED <<plainObject, pc, fresh, last>>

\* the transaction commits: the deep observer is called once with the batch of
\* events (not at all when nothing changed), and the handler updates plainObject
\* what one batch did: its events, the calls to a subscriber, whether the object the
\* handler was given (the one the caller holds) shows another content than before,
\* in this batch and in the batch before, and whether the two batches are disjoint
BatchRecord(events, after) ==
    [op |-> "commit", events |-> Len(events),
     delivered |-> Len(callbackCalls(plainObject, events, yRoot)),
     paths |-> events,
     modified |-> after # plainObject,
     prevModified |-> IF last.op = "commit" THEN last.modified ELSE FALSE,
     disjoint |-> IF last.op = "commit"
                  THEN events # <<>> /\ last.paths # <<>> /\ DisjointPaths(last.paths, events)
                  ELSE FALSE]

Commit ==
    /\ pc = "tx"
    /\ LET events == SortByLength(changed, 0) IN
       /\ plainObject' = getYjsEventsHandler(plainObject, events, yRoot)
       /\ last' = BatchRecord(events, getYjsEventsHandler(plainObject, events, yRoot))
    /\ pc' = "idle"
    /\ changed' = <<>>
    /\ fresh' = {}
    /\ nops' = 0
    /\ UNCHANGED yRoot

Next ==
    \/ Transact
    \/ YMapSet
    \/ YMapDelete
    \/ YArrayInsert
    \/ YArrayDelete
    \/ YTextInsert
    \/ YTextDelete
    \/ Commit

Spec == Init /\ [][Next]_vars

\* ------------------------------------ one batch on a tree that is in sync

\* live trees with nodes at two and three levels below the root
OrderRoots ==
    {YMap(MapPut(EmptyFn, "a", YArray(<<>>))),
     YMap(MapPut(MapPut(EmptyFn, "a", YText(<<"x">>)), "b", YText(<<>>))),
     YMap(MapPut(EmptyFn, "a", YMap(MapPut(EmptyFn, "a", YText(<<"x">>))))),
     YMap(MapPut(EmptyFn, "a", YArray(<<YText(<<"x">>), YText(<<>>)>>))),
     YMap(MapPut(EmptyFn, "a", YArray(<<Prim(1), YMap(MapPut(EmptyFn, "a", YText(<<"x">>)))>>)))}

\* the snapshot represents the tree
InitOrder ==
    /\ yRoot \in OrderRoots
    /\ plainObject = serializeYType(yRoot)
    /\ pc = "idle"
    /\ changed = <<>>
    /\ fresh = {}
    /\ nops = 0
    /\ last = [op |-> "none"]

\* the first ydoc.transact(() => { ... })
TransactOnce ==
    /\ last.op = "none"
    /\ Transact

NextOrder ==
    \/ TransactOnce
    \/ YMapSet
    \/ YMapDelete
    \/ YArrayInsert
    \/ YArrayDelete
    \/ YTextInsert
    \/ YTextDelete
    \/ Commit

SpecOrder == InitOrder /\ [][NextOrder]_vars

\* C1: with the handler registered for deep observation on an empty root map and an
\* empty snapshot, after every committed transaction the snapshot deep-equals the
\* serialized content of the root map.
C1_SnapshotMirrorsTree ==
    pc = "idle" => DeepEqual(plainObject, serializeYType(yRoot))

\* ============================================================================
\* applyJsonDiffPatchDelta (src/src/main.ts)
\* ============================================================================

\* A delta object is [k |-> "delta", t |-> the value of its '_t' key ("" when it has
\* none), d |-> its other entries [key, change] in insertion order].  A key of a map
\* delta is a string; a key of an array delta is [pre, idx]: "_3" is [pre |-> TRUE,
\* idx |-> 3] and "3" is [pre |-> FALSE, idx |-> 3].  A change that is a JS array is
\* the plain value Arr(...).
Delta(t, d) == [k |-> "delta", t |-> t, d |-> d]
Entry(key, change) == [key |-> key, change |-> change]
IdxKey(pre, idx) == [pre |-> pre, idx |-> idx]

MaxSeq == 3          \* length of an array snapshot (SpecDelta)
MaxText == 2         \* length of a text snapshot (SpecDelta)

SeqsUpTo(S, n) == UNION {[1..m -> S] : m \in 0..n}

\* The running state of one call: the live tree, the error thrown (if any), the
\* console.warn calls, the mutations issued on the live tree, and the tree after
\* each mutation that changed it.
NoError == ""
StartCall(root) == [root |-> root, err |-> NoError, warns |-> <<>>, ops |-> <<>>, states |-> <<>>]

Throw(R, msg) == [R EXCEPT !.err = msg]
Warn(R, msg) == [R EXCEPT !.warns = Append(@, msg)]

Issued(R, op, root2, effective) ==
    [R EXCEPT !.root = root2,
              !.ops = Append(@, op),
              !.states = IF effective THEN Append(@, root2) ELSE @]

\* yMap.set(key, value) on the Y.Map at path
DoMapSet(R, path, key, val) ==
    LET node == GetAt(R.root, path) IN
    Issued(R, [op |-> "set", path |-> path, key |-> key, val |-> val],
           SetAt(R.root, path, YMap(MapPut(node.m, key, val))), TRUE)

\* yMap.delete(key): nothing changes when the key is absent
DoMapDelete(R, path, key) ==
    LET node == GetAt(R.root, path) IN
    Issued(R, [op |-> "delete", path |-> path, key |-> key],
           SetAt(R.root, path, YMap(MapDel(node.m, key))), key \in DOMAIN node.m)

\* yArray.delete(index, 1): Yjs throws 'Length exceeded!' past the end
DoArrayDelete(R, path, index) ==
    LET node == GetAt(R.root, path) IN
    IF index >= Len(node.e)
    THEN Throw([R EXCEPT !.ops = Append(@, [op |-> "adelete", path |-> path, index |-> index])],
               "Length exceeded!")
    ELSE Issued(R, [op |-> "adelete", path |-> path, index |-> index],
                SetAt(R.root, path, YArray(RemoveAt(node.e, index))), TRUE)

\* yArray.insert(index, [value]): Yjs throws 'Length exceeded!' past the end
DoArrayInsert(R, path, index, val) ==
    LET node == GetAt(R.root, path) IN
    IF index > Len(node.e)
    THEN Throw([R EXCEPT !.ops = Append(@, [op |-> "ainsert", path |-> path, index |-> index, val |-> val])],
               "Length exceeded!")
    ELSE Issued(R, [op |-> "ainsert", path |-> path, index |-> index, val |-> val],
                SetAt(R.root, path, YArray(InsertAt(node.e, index, val))), TRUE)

\* yText.delete(0, yText.length)
DoTextClear(R, path) ==
    LET node == GetAt(R.root, path) IN
    Issued(R, [op |-> "tdelete", path |-> path, index |-> 0, length |-> Len(node.s)],
           SetAt(R.root, path, YText(<<>>)), Len(node.s) > 0)

\* yText.insert(0, text)
DoTextInsert(R, path, text) ==
    LET node == GetAt(R.root, path) IN
    Issued(R, [op |-> "tinsert", path |-> path, index |-> 0, text |-> text],
           SetAt(R.root, path, YText(text \o node.s)), Len(text) > 0)

\* updateYText without yText.delete(0, yText.length)
updateYText_KeepsOldContent(R, path, newValue) == DoTextInsert(R, path, newValue)

\* lines 172-176
updateYText(R, path, newValue) == DoTextInsert(DoTextClear(R, path), path, newValue)

\* lines 178-185
isArrayDelta(delta) == delta.k = "delta" /\ delta.t = "a"

\* lines 187-190
isTextDelta(delta) == delta.k = "arr" /\ \A i \in 1..Len(delta.e) : delta.e[i].k = "str"

IsArray(change) == change.k = "arr"
\* typeof change === 'object' && change !== null, for a change that is no array
IsObject(change) == change.k \in {"delta", "obj"}

\* delta.keys.length at lines 156 and 160: keys is the method Array.prototype.keys,
\* and the length of that function is its number of parameters
ArrayPrototypeKeysLength == 0

\* Object.keys / for..in order: integer keys ascending, then the other keys in
\* insertion order
RECURSIVE SortedIdx(_)
SortedIdx(S) ==
    IF S = {} THEN <<>>
    ELSE LET lo == CHOOSE x \in S : \A y \in S : x <= y IN <<lo>> \o SortedIdx(S \ {lo})

ObjectKeys(d) ==
    LET plain == {d[n].key.idx : n \in {n \in 1..Len(d) : ~d[n].key.pre}}
        first == [n \in 1..Cardinality(plain) |->
                    LET idx == SortedIdx(plain)[n]
                        at == CHOOSE j \in 1..Len(d) : ~d[j].key.pre /\ d[j].key.idx = idx
                    IN  d[at]]
    IN  first \o SelectSeq(d, LAMBDA en : en.key.pre)

\* the property name of an index key of an array delta: "0", "_0"
KeyString(key) == (IF key.pre THEN "_" ELSE "") \o ToString(key.idx)

\* the keys for..in visits on a delta handed to applyMapDelta: for a delta written
\* as {_t: 'a', ...} the integer keys, then '_t', then the '_i' keys
MapEntries(delta) ==
    IF delta.k # "delta" THEN <<>>
    ELSE IF delta.t = "" THEN delta.d
    ELSE LET keys == ObjectKeys(delta.d)
             named == [n \in 1..Len(keys) |-> Entry(KeyString(keys[n].key), keys[n].change)]
             plain == Cardinality({n \in 1..Len(keys) : ~keys[n].key.pre})
         IN  SubSeq(named, 1, plain) \o <<Entry("_t", Str(<<delta.t>>))>>
                 \o SubSeq(named, plain + 1, Len(named))

RECURSIVE applyJsonDiffPatchDelta(_, _, _)
RECURSIVE applyMapEntries(_, _, _)
RECURSIVE applyArrayEntries(_, _, _)

\* applyMapChange with the modification branch storing change[0] (the old value)
applyMapChange_StoresOldValue(R, path, key, change) ==
    LET yMap == GetAt(R.root, path) IN
    IF IsArray(change)
    THEN IF Len(change.e) = 1
         THEN LET newValue == change.e[1] IN
              IF newValue.k = "str"
              THEN DoMapSet(R, path, key, YText(newValue.s))
              ELSE DoMapSet(R, path, key, newValue)
         ELSE IF Len(change.e) = 2
         THEN LET newValue == change.e[1] IN
              IF key \in DOMAIN yMap.m /\ yMap.m[key].k = "ytext" /\ newValue.k = "str"
              THEN updateYText(R, path \o <<K(key)>>, newValue.s)
              ELSE DoMapSet(R, path, key, newValue)
         ELSE IF Len(change.e) = 3 /\ change.e[3] = Prim(0)
         THEN DoMapDelete(R, path, key)
         ELSE R
    ELSE IF IsObject(change)
    THEN LET created == IF isArrayDelta(change) THEN YArray(<<>>)
                        ELSE IF isTextDelta(change) THEN YText(<<>>)
                        ELSE YMap(EmptyFn)
             R2 == IF key \in DOMAIN yMap.m /\ yMap.m[key] # Null THEN R
                   ELSE DoMapSet(R, path, key, created)
         IN  applyJsonDiffPatchDelta(R2, path \o <<K(key)>>, change)
    ELSE Warn(R, "Unknown change type at key")

\* lines 68-113: one key of the delta
applyMapChange(R, path, key, change) ==
    LET yMap == GetAt(R.root, path) IN
    IF IsArray(change)
    THEN IF Len(change.e) = 1
         THEN LET newValue == change.e[1] IN
              IF newValue.k = "str"
              THEN DoMapSet(R, path, key, YText(newValue.s))
              ELSE DoMapSet(R, path, key, newValue)
         ELSE IF Len(change.e) = 2
         THEN LET newValue == change.e[2] IN
              IF key \in DOMAIN yMap.m /\ yMap.m[key].k = "ytext" /\ newValue.k = "str"
              THEN updateYText(R, path \o <<K(key)>>, newValue.s)
              ELSE DoMapSet(R, path, key, newValue)
         ELSE IF Len(change.e) = 3 /\ change.e[3] = Prim(0)
         THEN DoMapDelete(R, path, key)
         ELSE R
    ELSE IF IsObject(change)
    THEN LET created == IF isArrayDelta(change) THEN YArray(<<>>)
                        ELSE IF isTextDelta(change) THEN YText(<<>>)
                        ELSE YMap(EmptyFn)
             R2 == IF key \in DOMAIN yMap.m /\ yMap.m[key] # Null THEN R
                   ELSE DoMapSet(R, path, key, created)
         IN  applyJsonDiffPatchDelta(R2, path \o <<K(key)>>, change)
    ELSE Warn(R, "Unknown change type at key")

\* lines 64-115: for (const key in delta)
applyMapEntries(R, path, entries) ==
    IF entries = <<>> \/ R.err # NoError THEN R
    ELSE applyMapEntries(applyMapChange(R, path, Head(entries).key, Head(entries).change),
                         path, Tail(entries))

\* applyMapDelta that empties the map before it applies the entries
applyMapDelta_ResetsMap(R, path, delta) ==
    applyMapEntries([R EXCEPT !.root = SetAt(R.root, path, YMap(EmptyFn))], path, MapEntries(delta))

applyMapDelta(R, path, delta) == applyMapEntries(R, path, MapEntries(delta))

\* lines 125-150: one index key of the delta
applyArrayChange(R, path, indexKey, change) ==
    LET yArray == GetAt(R.root, path)
        index == indexKey.idx
    IN
    IF IsArray(change)
    THEN IF Len(change.e) >= 3 /\ change.e[3] = Prim(0)
         THEN DoArrayDelete(R, path, index)
         ELSE IF Len(change.e) = 1
         THEN DoArrayInsert(R, path, index, change.e[1])
         ELSE IF Len(change.e) = 2
         THEN LET R2 == DoArrayDelete(R, path, index) IN
              IF R2.err # NoError THEN R2 ELSE DoArrayInsert(R2, path, index, change.e[2])
         ELSE R
    ELSE IF IsObject(change)
    THEN IF index < Len(yArray.e) /\ IsYType(yArray.e[index + 1])
         THEN applyJsonDiffPatchDelta(R, path \o <<I(index)>>, change)
         ELSE Warn(R, "Unsupported Yjs type in array at index")
    ELSE Warn(R, "Unknown change type at array index")

\* lines 124-151: indexChanges.forEach
applyArrayEntries(R, path, entries) ==
    IF entries = <<>> \/ R.err # NoError THEN R
    ELSE applyArrayEntries(applyArrayChange(R, path, Head(entries).key, Head(entries).change),
                           path, Tail(entries))

\* lines 117-152
applyArrayDelta(R, path, delta) ==
    IF ~(delta.k = "delta" /\ delta.t = "a") THEN Throw(R, "Invalid array delta")
    ELSE applyArrayEntries(R, path, ObjectKeys(delta.d))

\* lines 154-170
applyTextDelta(R, path, delta) ==
    IF IsArray(delta)
    THEN IF ArrayPrototypeKeysLength = 1
         THEN DoTextInsert(DoTextClear(R, path), path, delta.e[1].s)
         ELSE IF ArrayPrototypeKeysLength = 2
         THEN updateYText(R, path, delta.e[2].s)
         ELSE Warn(R, "Unsupported text delta format")
    ELSE Warn(R, "Invalid delta format for Y.Text")

\* applyJsonDiffPatchDelta that returns on a value that is no live node
applyJsonDiffPatchDelta_IgnoresNonNodes(R, path, delta) ==
    LET yType == GetAt(R.root, path) IN
    IF R.err # NoError THEN R
    ELSE IF yType.k = "ymap" THEN applyMapDelta(R, path, delta)
    ELSE IF yType.k = "yarray" THEN applyArrayDelta(R, path, delta)
    ELSE IF yType.k = "ytext" THEN applyTextDelta(R, path, delta)
    ELSE R

\* lines 33-46
applyJsonDiffPatchDelta(R, path, delta) ==
    LET yType == GetAt(R.root, path) IN
    IF R.err # NoError THEN R
    ELSE IF yType.k = "ymap" THEN applyMapDelta(R, path, delta)
    ELSE IF yType.k = "yarray" THEN applyArrayDelta(R, path, delta)
    ELSE IF yType.k = "ytext" THEN applyTextDelta(R, path, delta)
    ELSE Throw(R, "Unsupported Yjs type")

\* ---------------------------------------------- deltas handed to the engine

DKeys == {"a", "b", "c"}
Texts == SeqsUpTo(Chars, MaxText)
FlatVals == {Prim(1), Prim(2)} \cup {Str(t) : t \in Texts \ {<<>>}}
FlatSnapshots == UNION {{Obj(m) : m \in [D -> FlatVals]} : D \in SUBSET DKeys}
ArrVals == {Prim(1), Str(<<"x">>)}
ArrSnapshots == {Arr(e) : e \in SeqsUpTo(ArrVals, MaxSeq)}

IsFlat(val) == val.k = "obj" /\ \A key \in DOMAIN val.m : val.m[key].k \in {"prim", "str"}

RECURSIVE SeqOf(_)
SeqOf(S) == IF S = {} THEN <<>> ELSE LET x == CHOOSE y \in S : TRUE IN <<x>> \o SeqOf(S \ {x})

RECURSIVE Concat(_)
Concat(ss) == IF ss = <<>> THEN <<>> ELSE Head(ss) \o Concat(Tail(ss))

\* diff(old, new) of two flat objects: [old, 0, 0] for a removed key, [old, new] for a
\* modified key, [new] for an added key; the keys of old first, then the added keys
MapDiff(old, new) ==
    LET left == SeqOf(DOMAIN old.m)
        right == SeqOf(DOMAIN new.m \ DOMAIN old.m)
        leftEntry(key) ==
            IF key \notin DOMAIN new.m THEN <<Entry(key, Arr(<<old.m[key], Prim(0), Prim(0)>>))>>
            ELSE IF old.m[key] # new.m[key] THEN <<Entry(key, Arr(<<old.m[key], new.m[key]>>))>>
            ELSE <<>>
    IN  Delta("", Concat([n \in 1..Len(left) |-> leftEntry(left[n])])
                    \o [n \in 1..Len(right) |-> Entry(right[n], Arr(<<new.m[right[n]]>>))])

\* An array delta from old to new.  keepOld and keepNew are the (0-based) indexes
\* of the elements that stay, paired in order: "_i": [old[i], 0, 0] for every old
\* index that does not stay, "j": [new[j]] for every new index that is not a kept
\* one, "j": [old[i], new[j]] for a kept pair whose value changes.  The deletions are
\* written first, then the insertions and modifications, each in ascending order.
ArrayDiff(old, new, keepOld, keepNew) ==
    LET ko == SortedIdx(keepOld)
        kn == SortedIdx(keepNew)
        dels == SortedIdx((0..(Len(old.e) - 1)) \ keepOld)
        newEntry(j) ==
            IF j \notin keepNew THEN <<Entry(IdxKey(FALSE, j), Arr(<<new.e[j + 1]>>))>>
            ELSE LET n == CHOOSE n \in 1..Len(kn) : kn[n] = j
                     i == ko[n]
                 IN  IF old.e[i + 1] # new.e[j + 1]
                     THEN <<Entry(IdxKey(FALSE, j), Arr(<<old.e[i + 1], new.e[j + 1]>>))>>
                     ELSE <<>>
    IN  Delta("a", [n \in 1..Len(dels) |-> Entry(IdxKey(TRUE, dels[n]), Arr(<<old.e[dels[n] + 1], Prim(0), Prim(0)>>))]
                     \o Concat([j \in 1..Len(new.e) |-> newEntry(j - 1)]))

\* what a deep observer of the root is shown: one notification per transaction that
\* changed the tree.  Inside the caller's ydoc.transact the whole call is one
\* transaction; otherwise every mutation of the live tree is a transaction of its own.
Seen(R, inTx) ==
    IF inTx THEN (IF R.states # <<>> THEN <<serializeYType(R.root)>> ELSE <<>>)
    ELSE [n \in 1..Len(R.states) |-> serializeYType(R.states[n])]

CallRecord(form, old, new, delta, inTx, R) ==
    [op |-> "applyJsonDiffPatchDelta", form |-> form, old |-> old, new |-> new,
     delta |-> delta, inTx |-> inTx, err |-> R.err, warns |-> R.warns, ops |-> R.ops,
     seen |-> Seen(R, inTx)]

DeltaRoots == {YMap(EmptyFn), YArray(<<>>)} \cup {YText(t) : t \in Texts}

InitDelta ==
    /\ yRoot \in DeltaRoots
    /\ plainObject = serializeYType(yRoot)
    /\ pc = "idle"
    /\ changed = <<>>
    /\ fresh = {}
    /\ nops = 0
    /\ last = [op |-> "none"]

\* const delta = diff(plainObject, newPlainObject); applyJsonDiffPatchDelta(yMap, delta)
ApplyMapDiff ==
    /\ pc = "idle"
    /\ yRoot.k = "ymap"
    /\ IsFlat(plainObject)
    /\ \E new \in FlatSnapshots, inTx \in BOOLEAN :
         LET delta == MapDiff(plainObject, new)
             R == applyJsonDiffPatchDelta(StartCall(yRoot), <<>>, delta)
         IN  /\ yRoot' = R.root
             /\ last' = CallRecord("map", plainObject, new, delta, inTx, R)
    /\ pc' = "called"
    /\ UNCHANGED <<plainObject, changed, fresh, nops>>

\* applyJsonDiffPatchDelta(yArray, delta) with an array delta from the current
\* content to new
ApplyArrayDiff ==
    /\ pc = "idle"
    /\ yRoot.k = "yarray"
    /\ Len(yRoot.e) <= MaxSeq
    /\ \E new \in ArrSnapshots, inTx \in BOOLEAN :
         \E keepOld \in SUBSET (0..(Len(plainObject.e) - 1)), keepNew \in SUBSET (0..(Len(new.e) - 1)) :
            /\ Cardinality(keepOld) = Cardinality(keepNew)
            /\ LET delta == ArrayDiff(plainObject, new, keepOld, keepNew)
                   R == applyJsonDiffPatchDelta(StartCall(yRoot), <<>>, delta)
               IN  /\ yRoot' = R.root
                   /\ last' = CallRecord("array", plainObject, new, delta, inTx, R)
    /\ pc' = "called"
    /\ UNCHANGED <<plainObject, changed, fresh, nops>>

\* applyJsonDiffPatchDelta(yText, [s]) and applyJsonDiffPatchDelta(yText, [old, s])
ApplyTextDelta ==
    /\ pc = "idle"
    /\ yRoot.k = "ytext"
    /\ \E t \in Texts, inTx \in BOOLEAN :
         \E delta \in {Arr(<<Str(t)>>), Arr(<<plainObject, Str(t)>>)} :
            LET R == applyJsonDiffPatchDelta(StartCall(yRoot), <<>>, delta) IN
            /\ yRoot' = R.root
            /\ last' = CallRecord("text", plainObject, Str(t), delta, inTx, R)
    /\ pc' = "called"
    /\ UNCHANGED <<plainObject, changed, fresh, nops>>

MaxShapeNodes == 2   \* nodes of a live map that a delta of any shape is applied to

ShapeKeys == {"a", "b"}

\* what a delta can hold under one key: additions, modifications, a deletion, arrays
\* of no known shape, a change that is no array and no object, and nested deltas
\* (without and with the array marker)
Shapes ==
    <<Arr(<<Prim(1)>>), Arr(<<Str(<<"x">>)>>), Arr(<<Obj(EmptyFn)>>), Arr(<<Arr(<<>>)>>),
      Arr(<<Null>>),
      Arr(<<Prim(1), Prim(2)>>), Arr(<<Prim(1), Str(<<"x">>)>>),
      Arr(<<Prim(1), Prim(0), Prim(0)>>),
      Arr(<<>>), Arr(<<Prim(1), Prim(0), Prim(1)>>), Arr(<<Prim(1), Prim(0), Prim(0), Prim(0)>>),
      Prim(1),
      Delta("", <<Entry("a", Arr(<<Prim(1)>>))>>),
      Delta("a", <<Entry(IdxKey(FALSE, 0), Arr(<<Prim(1)>>))>>),
      Delta("a", <<Entry(IdxKey(FALSE, 0), Arr(<<>>))>>)>>

\* the keys of a delta of one or two entries, in the order they were written
ShapeKeySeqs == {ks \in SeqsUpTo(ShapeKeys, 2) : Len(ks) >= 1 /\ (Len(ks) = 2 => ks[1] # ks[2])}

ShapeDelta(ks, n1, n2) ==
    Delta("", [i \in 1..Len(ks) |-> Entry(ks[i], Shapes[IF i = 1 THEN n1 ELSE n2])])

ShapesRecord(delta, R) ==
    [live |-> yRoot] @@ CallRecord("shapes", plainObject, serializeYType(R.root), delta, FALSE, R)

\* applyJsonDiffPatchDelta(yMap, delta) with a delta of any shape
ApplyShapes ==
    /\ pc = "idle"
    /\ yRoot.k = "ymap"
    /\ NodeCount(yRoot) <= MaxShapeNodes
    /\ \E ks \in ShapeKeySeqs, n1 \in 1..Len(Shapes), n2 \in 1..Len(Shapes) :
         /\ Len(ks) = 1 => n2 = 1
         /\ LET delta == ShapeDelta(ks, n1, n2)
                R == applyJsonDiffPatchDelta(StartCall(yRoot), <<>>, delta)
            IN  /\ yRoot' = R.root
                /\ last' = ShapesRecord(delta, R)
    /\ pc' = "called"
    /\ UNCHANGED <<plainObject, changed, fresh, nops>>

\* the call has returned: the caller takes the serialized tree as its next snapshot
Continue ==
    /\ pc = "called"
    /\ pc' = "idle"
    /\ plainObject' = serializeYType(yRoot)
    /\ last' = [op |-> "none"]
    /\ UNCHANGED <<yRoot, changed, fresh, nops>>

NextDelta ==
    \/ ApplyMapDiff
    \/ ApplyArrayDiff
    \/ ApplyTextDelta
    \/ ApplyShapes
    \/ Continue

SpecDelta == InitDelta /\ [][NextDelta]_vars

Called(form) == last.op = "applyJsonDiffPatchDelta" /\ last.form = form

\* C3: for a map that represents a flat snapshot old and the delta from old to new
\* ([v] per added key, [o, v] per modified key, [o, 0, 0] per removed key), after
\* applyJsonDiffPatchDelta the serialized map equals new.
C3_FlatMapDeltaConverges ==
    Called("map") => serializeYType(yRoot) = last.new

\* a call whose delta adds a key, modifies a key and removes a key
C3_Witness ==
    /\ Called("map")
    /\ \A n \in 1..3 : \E i \in 1..Len(last.delta.d) : Len(last.delta.d[i].change.e) = n
    /\ last.err = NoError

\* C4: for an array that represents old and an array delta from old to new ('_i'
\* deletes old index i, 'j' inserts or modifies at new index j), after
\* applyJsonDiffPatchDelta the serialized array equals new.
C4_ArrayDeltaConverges ==
    Called("array") => serializeYType(yRoot) = last.new

\* C5: applyJsonDiffPatchDelta on a text with delta [s] or [old, s] leaves the
\* content equal to s.
C5_TextDeltaReplaces ==
    Called("text") => serializeYType(yRoot) = last.new

\* C10: the mutations of one applyJsonDiffPatchDelta call are one atomic change: a
\* deep observer is notified exactly once per call that changes the tree, and what
\* it is shown is the tree with the whole delta applied.
C10_OneNotificationPerCall ==
    (last.op = "applyJsonDiffPatchDelta" /\ last.ops # <<>>)
        => (Len(last.seen) = 1 /\ last.seen[1] = serializeYType(yRoot))

\* ============================================================================
\* applyJsonDiffToYjs, jsonToYType and lcs (the 2.x API of the README and of the
\* tests that import them).  Their source is not part of the files at hand: they are
\* modelled from the specification (sections 4.1 to 4.4).
\* ============================================================================

MaxDiffSeq == 2      \* length of an array snapshot (SpecDiff)
MaxDiffText == 3     \* length of a text snapshot (SpecDiff, SpecStale)

\* an object or array held by reference
Ref(val, id) == [k |-> val.k, id |-> id] @@ val
IsContainer(val) == val.k \in {"obj", "arr"}
HasId(val) == "id" \in DOMAIN val

\* a === b
StrictEq(a, b) ==
    IF IsContainer(a) /\ IsContainer(b)
    THEN HasId(a) /\ HasId(b) /\ a.id = b.id
    ELSE a = b

Max(a, b) == IF a >= b THEN a ELSE b

\* ---- 4.1 Sequence Aligner

\* row i of the table from row i - 1: cell j is prev[j] + 1 when the elements are
\* equal, else the larger of the cell above and the cell to the left
RECURSIVE LcsRow(_, _, _, _)
LcsRow(prev, x, right, acc) ==
    LET j == Len(acc) IN
    IF j > Len(right) THEN acc
    ELSE LcsRow(prev, x, right,
                Append(acc, IF StrictEq(x, right[j]) THEN prev[j] + 1
                            ELSE Max(prev[j + 1], acc[j])))

\* the (|left| + 1) x (|right| + 1) table, rows 0..|left|, each a sequence of cells 0..|right|
RECURSIVE LcsTable(_, _, _)
LcsTable(left, right, rows) ==
    LET i == Len(rows) IN
    IF i > Len(left) THEN rows
    ELSE LcsTable(left, right, Append(rows, LcsRow(rows[i], left[i], right, <<0>>)))

RECURSIVE LcsBacktrack(_, _, _, _, _)

\* LcsBacktrack that decrements the left index first on a tie of the two neighbours
LcsBacktrack_LeftFirst(dp, left, right, i, j) ==
    IF i = 0 \/ j = 0 THEN [leftIndexes |-> <<>>, rightIndexes |-> <<>>]
    ELSE IF StrictEq(left[i], right[j])
    THEN LET r == LcsBacktrack(dp, left, right, i - 1, j - 1) IN
         [leftIndexes |-> Append(r.leftIndexes, i - 1), rightIndexes |-> Append(r.rightIndexes, j - 1)]
    ELSE IF dp[i][j + 1] >= dp[i + 1][j]
    THEN LcsBacktrack(dp, left, right, i - 1, j)
    ELSE LcsBacktrack(dp, left, right, i, j - 1)

\* the walk back from (i, j); on a tie of the two neighbours the right index is
\* decremented first
LcsBacktrack(dp, left, right, i, j) ==
    IF i = 0 \/ j = 0 THEN [leftIndexes |-> <<>>, rightIndexes |-> <<>>]
    ELSE IF StrictEq(left[i], right[j])
    THEN LET r == LcsBacktrack(dp, left, right, i - 1, j - 1) IN
         [leftIndexes |-> Append(r.leftIndexes, i - 1), rightIndexes |-> Append(r.rightIndexes, j - 1)]
    ELSE IF dp[i][j + 1] > dp[i + 1][j]
    THEN LcsBacktrack(dp, left, right, i - 1, j)
    ELSE LcsBacktrack(dp, left, right, i, j - 1)

\* lcs over the longest common prefix only
lcs_PrefixOnly(left, right) ==
    LET n == CHOOSE n \in 0..Len(left) :
                /\ n <= Len(right)
                /\ \A i \in 1..n : StrictEq(left[i], right[i])
                /\ (n < Len(left) /\ n < Len(right) => ~StrictEq(left[n + 1], right[n + 1]))
    IN  [leftIndexes |-> [i \in 1..n |-> i - 1], rightIndexes |-> [i \in 1..n |-> i - 1]]

lcs(left, right) ==
    LcsBacktrack(LcsTable(left, right, <<[j \in 1..(Len(right) + 1) |-> 0]>>),
                 left, right, Len(left), Len(right))

\* the characters of a string, each a one-character string
CharItems(s) == [i \in 1..Len(s) |-> Str(<<s[i]>>)]

\* ---- 4.2 Value Classifier

getType(val) ==
    CASE val.k = "obj" -> "Mapping"
      [] val.k = "arr" -> "Sequence"
      [] val.k = "str" -> "Text"
      [] OTHER -> "Primitive"

\* the kind of a live node
liveKind(node) ==
    CASE node.k = "ymap" -> "Mapping"
      [] node.k = "yarray" -> "Sequence"
      [] node.k = "ytext" -> "Text"
      [] OTHER -> "Primitive"

\* ---- 4.4 Structure Materializer

\* jsonToYType with strings kept as raw strings
RECURSIVE jsonToYType_RawStrings(_)
jsonToYType_RawStrings(object) ==
    CASE object.k = "obj" ->
            YMap([key \in DOMAIN object.m |-> jsonToYType_RawStrings(object.m[key])])
      [] object.k = "arr" ->
            YArray([i \in 1..Len(object.e) |-> jsonToYType_RawStrings(object.e[i])])
      [] OTHER -> object

RECURSIVE jsonToYType(_)
jsonToYType(object) ==
    CASE object.k = "obj" -> YMap([key \in DOMAIN object.m |-> jsonToYType(object.m[key])])
      [] object.k = "arr" -> YArray([i \in 1..Len(object.e) |-> jsonToYType(object.e[i])])
      [] object.k = "str" -> YText(object.s)
      [] OTHER -> object

\* ---- 4.3 Delta Application Engine

Undefined == [k |-> "undefined"]

\* the live node at a path: yMap.get(key), yArray.get(index), undefined where there is none
RECURSIVE LiveAt(_, _)
LiveAt(node, path) ==
    IF path = <<>> THEN node
    ELSE LET el == Head(path) IN
         IF IsIndex(el)
         THEN IF node.k = "yarray" /\ el.idx < Len(node.e)
              THEN LiveAt(node.e[el.idx + 1], Tail(path)) ELSE Undefined
         ELSE IF node.k = "ymap" /\ el.key \in DOMAIN node.m
              THEN LiveAt(node.m[el.key], Tail(path)) ELSE Undefined

Front(path) == SubSeq(path, 1, Len(path) - 1)
Last(path) == path[Len(path)]
Min(a, b) == IF a <= b THEN a ELSE b

\* yText.delete(offset, length): Yjs stops at the end of the text
DoTextDeleteAt(R, path, offset, length) ==
    LET node == GetAt(R.root, path)
        from == Min(offset, Len(node.s))
        to == Min(offset + length, Len(node.s))
    IN  Issued(R, [op |-> "tdelete", path |-> path, index |-> offset, length |-> length],
               SetAt(R.root, path, YText(SubSeq(node.s, 1, from) \o SubSeq(node.s, to + 1, Len(node.s)))),
               to > from)

\* yText.insert(offset, text): Yjs inserts at the end of the text when the offset is past it
DoTextInsertAt(R, path, offset, text) ==
    LET node == GetAt(R.root, path)
        at == Min(offset, Len(node.s))
    IN  Issued(R, [op |-> "tinsert", path |-> path, index |-> offset, text |-> text],
               SetAt(R.root, path, YText(SubSeq(node.s, 1, at) \o text \o SubSeq(node.s, at + 1, Len(node.s)))),
               Len(text) > 0)

\* MatchedPairs without the pairs of the aligner: the sentinel pair only
MatchedPairs_SentinelOnly(left, right) ==
    <<<<Len(left), Len(right)>>>>

\* the matched index pairs of the aligner followed by the sentinel pair
MatchedPairs(left, right) ==
    LET a == lcs(left, right)
        n == Len(a.leftIndexes)
    IN  [p \in 1..(n + 1) |-> IF p <= n THEN <<a.leftIndexes[p], a.rightIndexes[p]>>
                                         ELSE <<Len(left), Len(right)>>]

\* the walk over a text: i and j are the old and the new index, j is also the live offset
RECURSIVE TextWalk(_, _, _, _, _, _, _)
TextWalk(R, path, old, new, pairs, i, j) ==
    IF pairs = <<>> THEN R
    ELSE LET mi == Head(pairs)[1]
             mj == Head(pairs)[2]
         IN  IF i < mi /\ j < mj
             THEN TextWalk(DoTextInsertAt(DoTextDeleteAt(R, path, j, 1), path, j, <<new[j + 1]>>),
                           path, old, new, pairs, i + 1, j + 1)
             ELSE IF j < mj
             THEN TextWalk(DoTextInsertAt(R, path, j, <<new[j + 1]>>), path, old, new, pairs, i, j + 1)
             ELSE IF i < mi
             THEN TextWalk(DoTextDeleteAt(R, path, j, 1), path, old, new, pairs, i + 1, j)
             ELSE TextWalk(R, path, old, new, Tail(pairs), i + 1, j + 1)

\* applyTextDiff that replaces the whole content of the live text by newValue
applyTextDiff_ReplacesContent(R, oldValue, newValue, path) ==
    DoTextInsertAt(DoTextDeleteAt(R, path, 0, Len(LiveAt(R.root, path).s)), path, 0, newValue.s)

\* applyTextDelta(oldValue, newValue, yText) of the 2.x API
applyTextDiff(R, oldValue, newValue, path) ==
    TextWalk(R, path, oldValue.s, newValue.s,
             MatchedPairs(CharItems(oldValue.s), CharItems(newValue.s)), 0, 0)

\* replacement: delete the child at (parent, key) and insert a materialized subtree for
\* newValue at the same position.  A replacement of the root has no (parent, key).
replaceChild(R, path, newValue) ==
    IF path = <<>> THEN Throw(R, "replacement without parent")
    ELSE LET parent == LiveAt(R.root, Front(path))
             key == Last(path)
         IN  IF parent.k = "ymap"
             THEN DoMapSet(DoMapDelete(R, Front(path), key.key), Front(path), key.key,
                           jsonToYType(newValue))
             ELSE LET D == DoArrayDelete(R, Front(path), key.idx) IN
                  IF D.err # NoError THEN D
                  ELSE DoArrayInsert(D, Front(path), key.idx, jsonToYType(newValue))

\* delete the live tail elements beyond newLength
RECURSIVE TrimTail(_, _, _)
TrimTail(R, path, newLength) ==
    IF R.err # NoError \/ Len(GetAt(R.root, path).e) <= newLength THEN R
    ELSE TrimTail(DoArrayDelete(R, path, newLength), path, newLength)

RECURSIVE applyJsonDiffToYjs(_, _, _, _)
RECURSIVE MapWalk(_, _, _, _, _)
RECURSIVE SeqWalk(_, _, _, _, _, _, _)

\* removed keys first, then added keys, then common keys
KeyRank(old, new, key) ==
    IF key \notin DOMAIN new THEN 0 ELSE IF key \notin DOMAIN old THEN 1 ELSE 2

\* MapWalk that leaves the removed keys in the live map
MapWalk_KeepsRemovedKeys(R, path, old, new, keys) ==
    IF R.err # NoError \/ keys = {} THEN R
    ELSE LET key == CHOOSE key \in keys :
                       \A other \in keys : KeyRank(old, new, key) <= KeyRank(old, new, other)
             step == IF key \notin DOMAIN new THEN R
                     ELSE IF key \notin DOMAIN old
                     THEN DoMapSet(R, path, key, jsonToYType(new[key]))
                     ELSE applyJsonDiffToYjs(R, old[key], new[key], path \o <<K(key)>>)
         IN  MapWalk(step, path, old, new, keys \ {key})

\* removed keys are deleted, added keys are set to materialized values, common keys recurse
MapWalk(R, path, old, new, keys) ==
    IF R.err # NoError \/ keys = {} THEN R
    ELSE LET key == CHOOSE key \in keys :
                       \A other \in keys : KeyRank(old, new, key) <= KeyRank(old, new, other)
             step == IF key \notin DOMAIN new THEN DoMapDelete(R, path, key)
                     ELSE IF key \notin DOMAIN old
                     THEN DoMapSet(R, path, key, jsonToYType(new[key]))
                     ELSE applyJsonDiffToYjs(R, old[key], new[key], path \o <<K(key)>>)
         IN  MapWalk(step, path, old, new, keys \ {key})

\* SeqWalk that inserts one position after the live index
SeqWalk_InsertOffByOne(R, path, old, new, pairs, i, j) ==
    IF R.err # NoError \/ pairs = <<>> THEN R
    ELSE LET mi == Head(pairs)[1]
             mj == Head(pairs)[2]
         IN  IF i < mi /\ j < mj
             THEN SeqWalk(applyJsonDiffToYjs(R, old[i + 1], new[j + 1], path \o <<I(j)>>),
                          path, old, new, pairs, i + 1, j + 1)
             ELSE IF j < mj
             THEN SeqWalk(DoArrayInsert(R, path, j + 1, jsonToYType(new[j + 1])),
                          path, old, new, pairs, i, j + 1)
             ELSE IF i < mi
             THEN SeqWalk(DoArrayDelete(R, path, j), path, old, new, pairs, i + 1, j)
             ELSE SeqWalk(R, path, old, new, Tail(pairs), i + 1, j + 1)

\* SeqWalk that replaces the pair of a gap (one delete, one insert) without recursing
SeqWalk_ReplacesGapPairs(R, path, old, new, pairs, i, j) ==
    IF R.err # NoError \/ pairs = <<>> THEN R
    ELSE LET mi == Head(pairs)[1]
             mj == Head(pairs)[2]
         IN  IF i < mi /\ j < mj
             THEN SeqWalk(replaceChild(R, path \o <<I(j)>>, new[j + 1]),
                          path, old, new, pairs, i + 1, j + 1)
             ELSE IF j < mj
             THEN SeqWalk(DoArrayInsert(R, path, j, jsonToYType(new[j + 1])),
                          path, old, new, pairs, i, j + 1)
             ELSE IF i < mi
             THEN SeqWalk(DoArrayDelete(R, path, j), path, old, new, pairs, i + 1, j)
             ELSE SeqWalk(R, path, old, new, Tail(pairs), i + 1, j + 1)

\* the walk over a sequence: i and j are the old and the new index, j is also the live index
SeqWalk(R, path, old, new, pairs, i, j) ==
    IF R.err # NoError \/ pairs = <<>> THEN R
    ELSE LET mi == Head(pairs)[1]
             mj == Head(pairs)[2]
         IN  IF i < mi /\ j < mj
             THEN SeqWalk(applyJsonDiffToYjs(R, old[i + 1], new[j + 1], path \o <<I(j)>>),
                          path, old, new, pairs, i + 1, j + 1)
             ELSE IF j < mj
             THEN SeqWalk(DoArrayInsert(R, path, j, jsonToYType(new[j + 1])),
                          path, old, new, pairs, i, j + 1)
             ELSE IF i < mi
             THEN SeqWalk(DoArrayDelete(R, path, j), path, old, new, pairs, i + 1, j)
             ELSE SeqWalk(R, path, old, new, Tail(pairs), i + 1, j + 1)

\* applyJsonDiffToYjs that returns without an error when the kind of the live node is
\* not the classification of oldValue
applyJsonDiffToYjs_NoKindCheck(R, oldValue, newValue, path) ==
    IF R.err # NoError \/ StrictEq(oldValue, newValue) THEN R
    ELSE IF getType(oldValue) # getType(newValue) \/ getType(oldValue) = "Primitive"
    THEN replaceChild(R, path, newValue)
    ELSE IF liveKind(LiveAt(R.root, path)) # getType(oldValue) THEN R
    ELSE CASE getType(oldValue) = "Mapping" ->
                 MapWalk(R, path, oldValue.m, newValue.m, DOMAIN oldValue.m \cup DOMAIN newValue.m)
           [] getType(oldValue) = "Sequence" ->
                 TrimTail(SeqWalk(R, path, oldValue.e, newValue.e,
                                  MatchedPairs(oldValue.e, newValue.e), 0, 0),
                          path, Len(newValue.e))
           [] OTHER -> applyTextDiff(R, oldValue, newValue, path)

\* applyJsonDiffToYjs(oldValue, newValue, yValue, yValueParent, yValueKey): yValue is
\* the live node at path, its parent and key are the front and the last element of path
applyJsonDiffToYjs(R, oldValue, newValue, path) ==
    IF R.err # NoError \/ StrictEq(oldValue, newValue) THEN R
    ELSE IF getType(oldValue) # getType(newValue) \/ getType(oldValue) = "Primitive"
    THEN replaceChild(R, path, newValue)
    ELSE IF liveKind(LiveAt(R.root, path)) # getType(oldValue) THEN Throw(R, "TypeMismatch")
    ELSE CASE getType(oldValue) = "Mapping" ->
                 MapWalk(R, path, oldValue.m, newValue.m, DOMAIN oldValue.m \cup DOMAIN newValue.m)
           [] getType(oldValue) = "Sequence" ->
                 TrimTail(SeqWalk(R, path, oldValue.e, newValue.e,
                                  MatchedPairs(oldValue.e, newValue.e), 0, 0),
                          path, Len(newValue.e))
           [] OTHER -> applyTextDiff(R, oldValue, newValue, path)

\* ---- the callers of applyJsonDiffToYjs

DiffKeys == {"a", "b"}
DiffChars == {"a", "b"}

\* elements of the snapshots: primitives, strings, and arrays and objects, one of
\* them an object that the old and the new snapshot can both hold (the same reference)
DiffElems ==
    {Prim(1), Prim(2), Str(<<"a">>), Str(<<"a", "b">>),
     Ref(Arr(<<Prim(1)>>), 1), Arr(<<Prim(1)>>), Arr(<<>>), Obj([key \in {"a"} |-> Str(<<"a">>)])}

DiffTexts == {Str(t) : t \in SeqsUpTo(DiffChars, MaxDiffText)}
DiffArrays == {Arr(e) : e \in SeqsUpTo(DiffElems, MaxDiffSeq)}
DiffObjects == {Obj(m) : m \in UNION {[S -> DiffElems] : S \in SUBSET DiffKeys}}
\* the arrays of the fruits example, with strings over DiffChars: the second element
\* changes to a string with the same first character
Apple == Str(<<"a">>)
Banana == Str(<<"b", "a">>)
Blueberry == Str(<<"b", "b">>)
Cherry == Str(<<"a", "b">>)
FruitsOld == Arr(<<Apple, Banana, Cherry>>)
FruitsNew == Arr(<<Apple, Blueberry, Cherry>>)

DiffRoots == DiffTexts \cup DiffArrays \cup DiffObjects \cup {FruitsOld, FruitsNew}

\* what the live root can hold when it is not the tree of the caller's snapshot
StaleRoots ==
    {Str(t) : t \in SeqsUpTo(DiffChars, 2)}
        \cup {Arr(<<>>), Arr(<<Prim(1)>>), Arr(<<Str(<<"a">>), Prim(1)>>)}
        \cup {Obj(EmptyFn), Obj([key \in {"a"} |-> Str(<<"a">>)]), Obj([key \in {"a"} |-> Prim(1)])}

DiffRecord(oldValue, newValue, same, R) ==
    [op |-> "applyJsonDiffToYjs", old |-> oldValue, new |-> newValue, same |-> same,
     insync |-> yRoot = jsonToYType(oldValue), kind |-> liveKind(yRoot),
     before |-> serializeYType(yRoot), err |-> R.err, ops |-> R.ops,
     second |-> last.op = "kept",
     firstErr |-> IF last.op = "kept" THEN last.err ELSE NoError]

\* the live root is the tree of the caller's snapshot, or the tree of something else
\* (a remote peer changed it, or the caller holds the snapshot of another node)
InitDiff ==
    /\ \/ plainObject \in DiffRoots /\ yRoot = jsonToYType(plainObject)
       \/ plainObject \in StaleRoots /\ yRoot \in {jsonToYType(val) : val \in StaleRoots}
    /\ pc = "idle"
    /\ changed = <<>>
    /\ fresh = {}
    /\ nops = 0
    /\ last = [op |-> "none"]

\* applyJsonDiffToYjs(plainObject, newPlainObject, yValue) with a new snapshot of the
\* same classification as the old one (a root has no parent to be replaced in)
ApplyDiff ==
    /\ pc = "idle"
    /\ \E newValue \in DiffRoots :
          /\ getType(newValue) = getType(plainObject)
          /\ plainObject \notin DiffRoots => newValue \in StaleRoots
          /\ LET R == applyJsonDiffToYjs(StartCall(yRoot), plainObject, newValue, <<>>) IN
             /\ yRoot' = R.root
             /\ last' = DiffRecord(plainObject, newValue, FALSE, R)
    /\ pc' = "called"
    /\ UNCHANGED <<plainObject, changed, fresh, nops>>

\* applyJsonDiffToYjs(plainObject, plainObject, yValue): the same object twice
ApplySame ==
    /\ pc = "idle"
    /\ LET S == Ref(plainObject, 0)
           R == applyJsonDiffToYjs(StartCall(yRoot), S, S, <<>>)
       IN  /\ yRoot' = R.root
           /\ last' = DiffRecord(plainObject, plainObject, TRUE, R)
    /\ pc' = "called"
    /\ UNCHANGED <<plainObject, changed, fresh, nops>>

\* the caller goes on with the new snapshot
AdoptNew ==
    /\ pc = "called"
    /\ last.err = NoError
    /\ serializeYType(yRoot) = Strip(last.new)
    /\ pc' = "idle"
    /\ plainObject' = last.new
    /\ last' = [op |-> "none"]
    /\ UNCHANGED <<yRoot, changed, fresh, nops>>

\* the caller goes on with the old snapshot of a text (a second call is made with it)
KeepOld ==
    /\ pc = "called"
    /\ last.insync
    /\ last.old.k = "str"
    /\ pc' = "idle"
    /\ last' = [op |-> "kept", err |-> last.err]
    /\ UNCHANGED <<yRoot, plainObject, changed, fresh, nops>>

NextDiff ==
    \/ ApplyDiff
    \/ ApplySame
    \/ AdoptNew
    \/ KeepOld

SpecDiff == InitDiff /\ [][NextDiff]_vars

CalledDiff == last.op = "applyJsonDiffToYjs"

Items(val) == IF val.k = "str" THEN CharItems(val.s) ELSE val.e

\* the n-th smallest member of a set of numbers
Nth(S, n) == CHOOSE x \in S : Cardinality({y \in S : y < x}) = n - 1

\* positions S of left and T of right that hold a common subsequence
IsCommonSubsequence(left, right, S, T) ==
    /\ Cardinality(S) = Cardinality(T)
    /\ \A n \in 1..Cardinality(S) : StrictEq(left[Nth(S, n)], right[Nth(T, n)])

\* the length of the longest of all common subsequences
MaxCommon(left, right) ==
    LET sizes == {Cardinality(S) : S \in {S \in SUBSET (1..Len(left)) :
                     \E T \in SUBSET (1..Len(right)) : IsCommonSubsequence(left, right, S, T)}}
    IN  CHOOSE m \in sizes : \A n \in sizes : n <= m

AlignmentCorrect(left, right, a) ==
    /\ Len(a.leftIndexes) = Len(a.rightIndexes)
    /\ \A n \in 1..Len(a.leftIndexes) :
          /\ a.leftIndexes[n] \in 0..(Len(left) - 1)
          /\ a.rightIndexes[n] \in 0..(Len(right) - 1)
          /\ n > 1 => (a.leftIndexes[n - 1] < a.leftIndexes[n]
                       /\ a.rightIndexes[n - 1] < a.rightIndexes[n])
          /\ StrictEq(left[a.leftIndexes[n] + 1], right[a.rightIndexes[n] + 1])
    /\ Len(a.leftIndexes) = MaxCommon(left, right)

\* C6: lcs(left, right) returns two index lists of equal length, each strictly
\* increasing and within bounds, that hold equal elements position by position, and
\* no common subsequence of left and right is longer.
C6_AlignmentCorrect ==
    (CalledDiff /\ last.old.k \in {"str", "arr"}) =>
        AlignmentCorrect(Items(last.old), Items(last.new),
                         lcs(Items(last.old), Items(last.new)))

\* two texts of three characters whose alignment has two pairs at different positions
C6_Witness ==
    /\ CalledDiff /\ last.old.k = "str"
    /\ Len(last.old.s) = 3 /\ Len(last.new.s) = 3
    /\ LET a == lcs(Items(last.old), Items(last.new)) IN
          Len(a.leftIndexes) = 2 /\ a.leftIndexes # a.rightIndexes

\* C7: serializing the live tree built by jsonToYType(V) gives a value deep-equal to V.
C7_RoundTrip ==
    /\ DeepEqual(serializeYType(jsonToYType(plainObject)), plainObject)
    /\ CalledDiff => DeepEqual(serializeYType(jsonToYType(last.new)), last.new)

\* a live map built from an object that holds an array and an object holding a string
C7_Witness ==
    /\ pc = "idle" /\ plainObject.k = "obj" /\ DOMAIN plainObject.m = {"a", "b"}
    /\ plainObject.m["a"].k = "arr" /\ plainObject.m["a"].e # <<>>
    /\ plainObject.m["b"].k = "obj"
    /\ yRoot = jsonToYType(plainObject)
    /\ yRoot.m["a"].k = "yarray" /\ yRoot.m["b"].m["a"].k = "ytext"

\* C8: applyJsonDiffToYjs(S, S', live) with S' deep-equal to S (the same object or a
\* copy) and live representing S does not fail and leaves the serialized live node
\* as it was.
C8_Idempotent ==
    (CalledDiff /\ last.insync /\ DeepEqual(last.old, last.new)) =>
        (last.err = NoError /\ serializeYType(yRoot) = last.before)

\* a deep-equal copy that is not the same object and whose re-application issued mutations
C8_Witness ==
    /\ CalledDiff /\ last.insync /\ ~last.same
    /\ last.old.k = "arr"
    /\ DeepEqual(last.old, last.new)
    /\ last.ops # <<>>

\* old and new are not the same value (===)
Distinct == ~last.same /\ ~StrictEq(last.old, last.new)

C11_DeliveredOnce ==
    (last.op = "commit" /\ last.events >= 1) => last.delivered = 1

\* C12: after two sequential batches that touch disjoint paths the snapshot object
\* held before either batch has not been modified.
C12_EarlierSnapshotUnmodified ==
    (last.op = "commit" /\ last.disjoint) => (~last.modified /\ ~last.prevModified)

\* ============================================================================
\* Claims on applyJsonDiffPatchDelta with deltas of any shape (SpecDelta)
\* ============================================================================

CalledShapes == Called("shapes")

\* a change that is no addition, modification, deletion or nested object
Malformed(change) ==
    IF IsArray(change)
    THEN ~(Len(change.e) \in {1, 2} \/ (Len(change.e) = 3 /\ change.e[3] = Prim(0)))
    ELSE ~IsObject(change)

IsNested(change) == change.k = "delta"

\* the child an entry of the delta finds under its key when it is reached: what the
\* map held before the call (the keys of a delta are distinct), nothing for an absent key
ChildBefore(en) ==
    IF en.key \in DOMAIN last.live.m THEN last.live.m[en.key] ELSE Undefined

\* the entries of a nested delta are visited when the child is absent or null (a node
\* is created for it) or is a map or an array
NestedVisited(en) ==
    IsNested(en.change)
        /\ (ChildBefore(en).k \in {"undefined", "ymap", "yarray"} \/ ChildBefore(en) = Null)

MalformedCount(en) ==
    IF Malformed(en.change) THEN 1
    ELSE IF NestedVisited(en)
    THEN Cardinality({j \in 1..Len(en.change.d) : Malformed(en.change.d[j].change)})
    ELSE 0

\* C13: every entry of a map delta or sequence delta whose shape is none of addition,
\* modification, deletion or nested object is reported through the warning channel.
C13_UnknownShapesReported ==
    (CalledShapes /\ last.err = NoError) =>
        Len(last.warns) >= SumSeq([n \in 1..Len(last.delta.d) |-> MalformedCount(last.delta.d[n])])

\* a nested delta that cannot be applied to the child it is addressed to: the key
\* holds a value that is no live node, or an array and the delta lacks the marker
Misaddressed(en) ==
    /\ IsNested(en.change)
    /\ \/ ChildBefore(en).k \in {"prim", "str", "obj", "arr"} /\ ChildBefore(en) # Null
       \/ ChildBefore(en).k = "yarray" /\ en.change.t # "a"

\* C14: a malformed entry does not abort the call: the well-formed sibling entries
\* of the same delta, before and after it, are still applied.
C14_MalformedEntryIsolated ==
    (/\ CalledShapes
     /\ Len(last.delta.d) = 2
     /\ Misaddressed(last.delta.d[1])
     /\ last.delta.d[2].change = Arr(<<Prim(1)>>))
        => (/\ last.err = NoError
            /\ last.delta.d[2].key \in DOMAIN yRoot.m
            /\ yRoot.m[last.delta.d[2].key] = Prim(1))

\* a modification [old, s] with a string s under a key that holds a Y.Text
TextModification(en) ==
    /\ IsArray(en.change) /\ Len(en.change.e) = 2 /\ en.change.e[2].k = "str"
    /\ ChildBefore(en).k = "ytext"

\* C15: for a modification [old, s] with s a string under a key that holds a Text-node,
\* after the call the key holds the same node (no set or delete of the key was
\* issued) and the content of the node is s.
C15_TextNodeKept ==
    (CalledShapes /\ last.err = NoError) =>
        \A n \in 1..Len(last.delta.d) :
            LET en == last.delta.d[n] IN
            TextModification(en) =>
                /\ yRoot.m[en.key] = YText(en.change.e[2].s)
                /\ \A i \in 1..Len(last.ops) :
                      last.ops[i].op \in {"set", "delete"} =>
                          ~(last.ops[i].path = <<>> /\ last.ops[i].key = en.key)

\* a Text-node with another content was modified to "x", next to a second entry
C15_Witness ==
    /\ CalledShapes /\ last.err = NoError
    /\ Len(last.delta.d) = 2
    /\ TextModification(last.delta.d[1])
    /\ ChildBefore(last.delta.d[1]) = YText(<<"x", "x">>)
    /\ yRoot.m[last.delta.d[1].key] = YText(<<"x">>)

\* C16: for an addition [v] the key holds a freshly materialized subtree for v: a
\* Text-node for a string, a Map-node for a mapping, a Sequence-node for a sequence,
\* v itself for a primitive.
C16_AdditionMaterialized ==
    (CalledShapes /\ last.err = NoError) =>
        \A n \in 1..Len(last.delta.d) :
            LET en == last.delta.d[n] IN
            (IsArray(en.change) /\ Len(en.change.e) = 1) =>
                /\ liveKind(yRoot.m[en.key]) = getType(en.change.e[1])
                /\ serializeYType(yRoot.m[en.key]) = en.change.e[1]

\* the kind of live node that the shape of a nested delta implies
ImpliedKind(delta) ==
    IF isArrayDelta(delta) THEN "yarray" ELSE IF isTextDelta(delta) THEN "ytext" ELSE "ymap"

\* the child the engine recurses into: the child the key held, or the node created
\* for an absent key or a key that holds null (lines 97-107)
ChildAtRecursion(en) ==
    IF ChildBefore(en).k = "undefined" \/ ChildBefore(en) = Null
    THEN (IF isArrayDelta(en.change) THEN YArray(<<>>)
          ELSE IF isTextDelta(en.change) THEN YText(<<>>) ELSE YMap(EmptyFn))
    ELSE ChildBefore(en)

\* C17: when the engine recurses into a nested map entry, the child under the key is
\* a live node of the kind implied by the shape of the nested delta.
C17_ChildOfImpliedKind ==
    (CalledShapes /\ IsNested(last.delta.d[1].change)) =>
        ChildAtRecursion(last.delta.d[1]).k = ImpliedKind(last.delta.d[1].change)

\* ============================================================================
\* Claims on the operations that applyJsonDiffToYjs issues (SpecDiff)
\* ============================================================================

\* a call on a sequence whose live node represents old
SyncedSeqCall == CalledDiff /\ last.insync /\ last.old.k = "arr" /\ ~last.same

\* the element inserts and deletes issued on the live Sequence-node of the call
SeqOpCount ==
    Cardinality({n \in 1..Len(last.ops) :
                    last.ops[n].op \in {"adelete", "ainsert"} /\ Len(last.ops[n].path) = 0})

\* the length of the alignment of old and new
MatchLength == Len(lcs(last.old.e, last.new.e).leftIndexes)

\* the pairs of a gap that the walk recurses into: both elements of one
\* classification that is not Primitive
RECURSIVE RecursedPairs(_, _, _, _, _)
RecursedPairs(old, new, pairs, i, j) ==
    IF pairs = <<>> THEN 0
    ELSE LET mi == Head(pairs)[1]
             mj == Head(pairs)[2]
         IN  IF i < mi /\ j < mj
             THEN (IF /\ ~StrictEq(old[i + 1], new[j + 1])
                      /\ getType(old[i + 1]) = getType(new[j + 1])
                      /\ getType(old[i + 1]) # "Primitive"
                   THEN 1 ELSE 0) + RecursedPairs(old, new, pairs, i + 1, j + 1)
             ELSE IF j < mj THEN RecursedPairs(old, new, pairs, i, j + 1)
             ELSE IF i < mi THEN RecursedPairs(old, new, pairs, i + 1, j)
             ELSE RecursedPairs(old, new, Tail(pairs), i + 1, j + 1)

Recursed == RecursedPairs(last.old.e, last.new.e, MatchedPairs(last.old.e, last.new.e), 0, 0)

RECURSIVE TrackNodes(_, _)
TrackNodes(ops, nodes) ==
    IF ops = <<>> THEN nodes
    ELSE LET o == Head(ops) IN
         IF Len(o.path) # 0 \/ o.op \notin {"adelete", "ainsert"} THEN TrackNodes(Tail(ops), nodes)
         ELSE IF o.op = "adelete"
         THEN TrackNodes(Tail(ops), IF o.index < Len(nodes) THEN RemoveAt(nodes, o.index) ELSE nodes)
         ELSE TrackNodes(Tail(ops), IF o.index <= Len(nodes) THEN InsertAt(nodes, o.index, -1) ELSE nodes)

NodesAfter == TrackNodes(last.ops, [n \in 1..Len(last.old.e) |-> n - 1])

\* every matched element of old is the node at the matched index of new
MatchedKept ==
    LET a == lcs(last.old.e, last.new.e) IN
    /\ Len(NodesAfter) = Len(last.new.e)
    /\ \A p \in 1..Len(a.leftIndexes) : NodesAfter[a.rightIndexes[p] + 1] = a.leftIndexes[p]

FruitsCall == SyncedSeqCall /\ last.old = FruitsOld /\ last.new = FruitsNew

Prefix(text, s) == SubSeq(text, 1, s)
Suffix(text, s) == SubSeq(text, s + 1, Len(text))

\* the second of two calls with one old snapshot of a text
SecondTextCall == CalledDiff /\ last.second /\ last.old.k = "str"

\* the edits of the first call (old to the live content before the second call) lie
\* at or after offset s of old, the edits of the second call (old to new) before it
EditsSplitAt(s) ==
    LET old == last.old.s
        first == last.before.s
        second == last.new.s
    IN  /\ Len(first) >= s
        /\ Prefix(first, s) = Prefix(old, s)
        /\ Len(second) >= Len(old) - s
        /\ Suffix(second, Len(second) - (Len(old) - s)) = Suffix(old, s)

\* old with both edits: the changed front of the second new snapshot and the changed
\* back of the first
BothEdits(s) ==
    Prefix(last.new.s, Len(last.new.s) - (Len(last.old.s) - s)) \o Suffix(last.before.s, s)

\* C20: of two calls made one after the other with the same old snapshot of a text,
\* the second with edits at lower offsets than the first and in a disjoint range,
\* neither fails and the live Text-node ends with both edits.
C20_BothEditsApplied ==
    SecondTextCall =>
        \A s \in 0..Len(last.old.s) :
            EditsSplitAt(s) =>
                /\ last.firstErr = NoError
                /\ last.err = NoError
                /\ yRoot.s = BothEdits(s)

\* the second call changed the front of a text whose back the first call had changed
C20_Witness ==
    /\ SecondTextCall
    /\ \E s \in 1..(Len(last.old.s) - 1) :
          /\ EditsSplitAt(s)
          /\ Suffix(last.before.s, s) # Suffix(last.old.s, s)
          /\ Prefix(last.new.s, Len(last.new.s) - (Len(last.old.s) - s)) # Prefix(last.old.s, s)
          /\ yRoot.s = BothEdits(s)
    /\ yRoot.s # last.new.s /\ yRoot.s # last.before.s

\* ============================================================================
\* Claims on the tie-break of lcs (SpecDiff)
\* ============================================================================

\* left and right of the test of lcs with strings
HelloLeft == <<"H", "e", "l", "l", "o", ",", " ", "a", "m", "a", "z", "i", "n", "g", " ", "w", "o", "r", "l", "d", "!">>
HelloRight == <<"H", "i", ",", " ", "g", "e", "l", "l", "o", " ", "w", "o", "r", "l", "d", "!">>
HelloAlignment == lcs(CharItems(HelloLeft), CharItems(HelloRight))

\* the positions (from 1) named by a list of indexes (from 0)
Positions(indexes) == {indexes[n] + 1 : n \in 1..Len(indexes)}

\* A and B of one size: A is B, or the two differ first, from the back, where A is greater
LaterOrEqual(A, B) ==
    A = B \/ (\E x \in A \ B : \A y \in B \ A : y < x)

\* no longest common subsequence of left and right lies later in left than a: a walk
\* back from the ends that gives up an element of right before one of left keeps the
\* elements of left as long as a longest alignment can hold them
LatestInLeft(left, right, a) ==
    \A S \in SUBSET (1..Len(left)), T \in SUBSET (1..Len(right)) :
        (IsCommonSubsequence(left, right, S, T) /\ Cardinality(S) = Len(a.leftIndexes)) =>
            LaterOrEqual(Positions(a.leftIndexes), S)

\* C21: lcs returns the alignment found by walking the table back from
\* (|left|, |right|) and decrementing the right index first on a tie: of all longest
\* alignments none lies later in left; for 'Hello, amazing world!' and
\* 'Hi, gello world!' it returns the index lists of the test.
C21_TieBreak ==
    /\ HelloAlignment.leftIndexes = <<0, 1, 2, 3, 4, 14, 15, 16, 17, 18, 19, 20>>
    /\ HelloAlignment.rightIndexes = <<0, 5, 6, 7, 8, 9, 10, 11, 12, 13, 14, 15>>
    /\ (CalledDiff /\ last.old.k \in {"str", "arr"}) =>
          LatestInLeft(Items(last.old), Items(last.new),
                       lcs(Items(last.old), Items(last.new)))

\* a call on two texts with two longest alignments (b of 'ab', or a of 'ab', in 'ba')
C21_Witness ==
    /\ CalledDiff
    /\ last.old = Str(<<"a", "b">>) /\ last.new = Str(<<"b", "a">>)
    /\ lcs(Items(last.old), Items(last.new)) = [leftIndexes |-> <<1>>, rightIndexes |-> <<0>>]

\* ============================================================================
\* Claims on the dispatch of applyJsonDiffPatchDelta (SpecDelta)
\* ============================================================================

\* the operations of the call that touch the key of an entry or the subtree under it
TouchesKey(op, key) ==
    \/ Len(op.path) = 0 /\ op.op \in {"set", "delete"} /\ op.key = key
    \/ Len(op.path) > 0 /\ op.path[1] = K(key)

\* the key of the entry holds what it held before the call and no operation was
\* issued on it
Untouched(en) ==
    /\ en.key \in DOMAIN yRoot.m
    /\ yRoot.m[en.key] = ChildBefore(en)
    /\ \A i \in 1..Len(last.ops) : ~TouchesKey(last.ops[i], en.key)

\* a nested-object entry whose key holds a value that is no live node
OnNonNode(en) ==
    IsNested(en.change) /\ ChildBefore(en).k \in {"prim", "str", "obj", "arr"}

\* C22 as stated: a nested-object map entry whose key holds a primitive or another
\* value that is no live node makes the call fail ('Unsupported Yjs type' when the
\* entry is the first) and no mutation is issued on that key.
C22_NonNodeFails ==
    CalledShapes =>
        \A n \in 1..Len(last.delta.d) :
            LET en == last.delta.d[n] IN
            OnNonNode(en) =>
                /\ last.err # NoError
                /\ n = 1 => last.err = "Unsupported Yjs type"
                /\ Untouched(en)

\* C22 amended: as stated for a key that holds a value other than null that is no live
\* node; a key that holds null is taken as absent: a node of the kind implied by the
\* nested delta is set under the key and the dispatch is made on that node.
C22_NonNullNonNodeFails ==
    CalledShapes =>
        \A n \in 1..Len(last.delta.d) :
            LET en == last.delta.d[n] IN
            /\ (OnNonNode(en) /\ ChildBefore(en) # Null) =>
                  /\ last.err # NoError
                  /\ n = 1 => last.err = "Unsupported Yjs type"
                  /\ Untouched(en)
            /\ (OnNonNode(en) /\ ChildBefore(en) = Null /\ n = 1) =>
                  /\ last.ops # <<>>
                  /\ last.ops[1] = [op |-> "set", path |-> <<>>, key |-> en.key,
                                     val |-> ChildAtRecursion(en)]

\* a nested delta for a key that holds a raw object, after a first entry was applied
C22_Witness ==
    /\ CalledShapes
    /\ Len(last.delta.d) = 2
    /\ OnNonNode(last.delta.d[2])
    /\ ChildBefore(last.delta.d[2]) = Obj(EmptyFn)
    /\ last.err = "Unsupported Yjs type"
    /\ last.ops # <<>>

\* ============================================================================
\* Claims on the keys that applyJsonDiffPatchDelta leaves alone (SpecDelta)
\* ============================================================================

\* the keys of the delta of the call
DeltaKeys == {last.delta.d[n].key : n \in 1..Len(last.delta.d)}

\* a key of the live map that the delta does not name
Unnamed(key) == key \in DOMAIN last.live.m /\ key \notin DeltaKeys

\* C23: applyJsonDiffPatchDelta on a Map-node changes only the keys named in the
\* delta: every other key of the live map holds the same value or the same child
\* node, with the same content, after the call, and no operation is issued on it;
\* an empty delta issues no operation at all.
C23_OtherKeysUnchanged ==
    /\ CalledShapes =>
          \A key \in Keys \cup ShapeKeys :
              Unnamed(key) =>
                  /\ key \in DOMAIN yRoot.m
                  /\ yRoot.m[key] = last.live.m[key]
                  /\ \A i \in 1..Len(last.ops) : ~TouchesKey(last.ops[i], key)
    /\ Called("map") =>
          /\ \A key \in DOMAIN last.old.m \ DeltaKeys :
                /\ key \in DOMAIN yRoot.m
                /\ serializeYType(yRoot.m[key]) = last.old.m[key]
                /\ \A i \in 1..Len(last.ops) : ~TouchesKey(last.ops[i], key)
          /\ last.delta.d = <<>> =>
                (last.err = NoError /\ last.ops = <<>> /\ last.warns = <<>>
                 /\ serializeYType(yRoot) = last.old)

\* a call that changed the key of its delta next to a key that holds a child node
C23_Witness ==
    /\ CalledShapes /\ last.err = NoError
    /\ last.ops # <<>>
    /\ \E key \in Keys \cup ShapeKeys :
          Unnamed(key) /\ IsYType(last.live.m[key]) /\ yRoot.m[key] = last.live.m[key]

\* a call with an empty delta on a map that holds a key
C23_WitnessEmpty ==
    Called("map") /\ last.delta.d = <<>> /\ DOMAIN last.old.m # {}

\* ============================================================================
\* Claims on the snapshot of the handler across batches (Spec)
\* ============================================================================

Orders(n) == {f \in [1..n -> 1..n] : \A i, j \in 1..n : f[i] = f[j] => i = j}

Reordered(events, f) == [i \in 1..Len(events) |-> events[f[i]]]

\* no event comes before the event of a node its target lies under
AncestorsFirst(events) ==
    \A i, j \in 1..Len(events) :
        (i < j /\ events[i] # events[j]) => ~IsPrefix(events[j], events[i])

\* C25 as stated: from a snapshot that represents the tree before the batch the
\* handler produces the same snapshot for every order of the events of the batch.
C25_AnyOrder ==
    [][(pc = "tx" /\ pc' = "idle") =>
          LET events == SortByLength(changed, 0) IN
          \A f \in Orders(Len(events)) :
              getYjsEventsHandler(plainObject, Reordered(events, f), yRoot) = plainObject']_vars

\* C25 amended: the handler produces the same snapshot for every order of the events
\* in which the event of a node comes before the events of its descendants.
C25_AncestorsFirstOrder ==
    [][(pc = "tx" /\ pc' = "idle") =>
          LET events == SortByLength(changed, 0) IN
          /\ AncestorsFirst(events)
          /\ \A f \in Orders(Len(events)) :
                AncestorsFirst(Reordered(events, f)) =>
                    getYjsEventsHandler(plainObject, Reordered(events, f), yRoot) = plainObject']_vars

\* a batch with the events of a node and of one of its descendants
C25_Witness ==
    /\ last.op = "commit"
    /\ \E i, j \in 1..Len(last.paths) :
          /\ last.paths[i] # last.paths[j]
          /\ IsPrefix(last.paths[i], last.paths[j])
          /\ Len(last.paths[j]) = 3

\* a batch with the events of two nodes that are not under one another
C25_WitnessSiblings ==
    /\ last.op = "commit"
    /\ last.events = 2
    /\ DisjointPaths(<<last.paths[1]>>, <<last.paths[2]>>)

====
